---- MODULE Spec2Model ----
(***************************************************************************)
(* City-suggestion service: prefix index (trie), fuzzy matcher, scoring    *)
(* model and the suggestion orchestrator.                                  *)
(*                                                                         *)
(* Representation                                                          *)
(*   - a string is a sequence of one-character strings;                    *)
(*   - a text / proximity / population score is an integer number of       *)
(*     thousandths (1000 = 1.0); a blend weight is in hundredths           *)
(*     (40 = 0.4); a final score is in units of 1/100000 (100000 = 1.0);   *)
(*     the IEEE value NaN is the number -1 (no score is negative);         *)
(*   - an optional request field is <<>> when undefined and <<v>> when it  *)
(*     has the value v;                                                    *)
(*   - every place and every caller lies on one meridian, so the haversine *)
(*     distance is the arc between the two latitudes; a latitude is given  *)
(*     as that arc in km from a reference point;                           *)
(*   - a trie is a function from a node's path (the characters on the way  *)
(*     from the root) to the node; children keep their insertion order.    *)
(*                                                                         *)
(* Spec runs each getSuggestions call in one step; SpecInterleaved cuts    *)
(* the calls and the initialization at their awaits.                       *)
(***************************************************************************)
EXTENDS Integers, Sequences, FiniteSets, TLC

VARIABLES
    cities,       \* CityRepository.cities, as ids of CityPool
    phase,        \* "loading", "ready" or "failed": where initialization stands
    initError,    \* the error initialization raised, "none" if none
    root,         \* TrieService.root
    fuzzySet,     \* FuzzyService.fuzzySet
    cityMap,      \* FuzzyService.cityMap
    request,      \* the last request served
    branch,       \* the policy branch it took, "idle" between calls
    consulted,    \* the collaborators that branch called
    suggestions,  \* the Set of entities it collected, in insertion order
    response,     \* the list it returned
    error,        \* the error it raised, "none" if none
    listening,    \* TRUE once bootstrap's app.listen has resolved
    inflight      \* the getSuggestions calls suspended at an await, by caller

call == <<request, branch, consulted, suggestions, response, error>>

serving == <<listening, inflight>>

vars == <<cities, phase, initError, root, fuzzySet, cityMap, call, serving>>

Undefined == <<>>
Some(v) == <<v>>
NaN == -1
Null == 0

\* ------------------------------------------------------------------ bounds
MaxCities == 3

\* --------------------------------------------------------------- constants
NAME_WEIGHT == 1000
ASCII_WEIGHT == 900
ALT_NAME_WEIGHT == 700
PROXIMITY_WEIGHT == 40
POPULATION_WEIGHT == 15
MAX_SUGGESTIONS == 10
MAX_DISTANCE_KM == 1000
\* fuzzyset.js accepts a match whose score is at least 0.33
MinMatchScore == 330

\* ----------------------------------------------------------------- strings
toLowerChar(ch) ==
    CASE ch = "A" -> "a"
      [] ch = "B" -> "b"
      [] ch = "T" -> "t"
      [] OTHER -> ch

toLowerCase(s) == [i \in 1..Len(s) |-> toLowerChar(s[i])]

RECURSIVE trimStart(_)
trimStart(s) == IF Len(s) > 0 /\ s[1] = " " THEN trimStart(Tail(s)) ELSE s

RECURSIVE trimEnd(_)
trimEnd(s) ==
    IF Len(s) > 0 /\ s[Len(s)] = " " THEN trimEnd(SubSeq(s, 1, Len(s) - 1)) ELSE s

trim(s) == trimEnd(trimStart(s))

\* s.split(','): the segments between commas, empty segments kept
RECURSIVE split(_)
split(s) ==
    IF \E i \in 1..Len(s) : s[i] = ","
    THEN LET i == CHOOSE k \in 1..Len(s) :
                      s[k] = "," /\ \A j \in 1..(k - 1) : s[j] # ","
         IN <<SubSeq(s, 1, i - 1)>> \o split(SubSeq(s, i + 1, Len(s)))
    ELSE <<s>>

startsWith(s, p) == Len(p) <= Len(s) /\ SubSeq(s, 1, Len(p)) = p

Max(a, b) == IF a >= b THEN a ELSE b
Min(a, b) == IF a <= b THEN a ELSE b
Abs(a) == IF a >= 0 THEN a ELSE 0 - a

\* ------------------------------------------------------------------ places
\* The catalog records the repository can hold. id, name, ascii, altName,
\* latitude, longitude, country, population, timezone are CityEntity fields;
\* an absent string field is the empty string.
CityPool ==
    << [id |-> 1, name |-> <<"A","b">>, ascii |-> <<"A","b">>, altName |-> <<>>,
        latitude |-> 0, longitude |-> 0, country |-> <<"C","A">>,
        population |-> 1000, timezone |-> <<"T">>],
       [id |-> 2, name |-> <<"A","b">>, ascii |-> <<>>,
        altName |-> <<"a","b","b",","," ","b">>,
        latitude |-> 7, longitude |-> 0, country |-> <<"C","A">>,
        population |-> 10, timezone |-> <<>>],
       [id |-> 3, name |-> <<"B","a">>, ascii |-> <<"B","a">>,
        altName |-> <<"a","b",",">>,
        latitude |-> 1000, longitude |-> 0, country |-> <<>>,
        population |-> 1, timezone |-> <<"T">>],
       [id |-> 4, name |-> <<"b">>, ascii |-> <<>>, altName |-> <<"B">>,
        latitude |-> 1001, longitude |-> 0, country |-> <<>>,
        population |-> 0, timezone |-> <<>>],
       [id |-> 5, name |-> <<"a">>, ascii |-> <<>>,
        altName |-> <<"a","a",",","a","b",",","a","a","a",",","a","a","b",",",
                      "a","b","a",",","a","b","b",",","a","a","a","a",",",
                      "a","a","a","b",",","a","a","b","a",",","a","a","b","b">>,
        latitude |-> 0, longitude |-> 0, country |-> <<"U","S">>,
        population |-> 1, timezone |-> <<>>],
       [id |-> 6, name |-> <<"a","b","b","b">>, ascii |-> <<>>,
        altName |-> <<"a">>,
        latitude |-> 0, longitude |-> 0, country |-> <<>>,
        population |-> 0, timezone |-> <<"T">> ],
       [id |-> 7, name |-> <<"T","o","r","o","n","t","o">>, ascii |-> <<>>,
        altName |-> <<>>,
        latitude |-> 0, longitude |-> 0, country |-> <<"C","A">>,
        population |-> 2731571,
        timezone |-> <<"A","m","e","r","i","c","a","/","T","o","r","o","n","t","o">> ] >>

CityIds == 1..Len(CityPool)
City(id) == CityPool[id]

\* ------------------------------------------------------------ prefix index
NewTrieNode == [children |-> <<>>, isEndOfWord |-> FALSE, weight |-> 0, city |-> Null]

EmptyTrie == [p \in {<<>>} |-> NewTrieNode]

hasChild(node, ch) == \E k \in 1..Len(node.children) : node.children[k] = ch

\* the loop of insertWord: create the missing nodes on the way down
RECURSIVE walkCreate(_, _, _)
walkCreate(t, word, i) ==
    IF i > Len(word) THEN t
    ELSE LET parent == SubSeq(word, 1, i - 1)
             path == SubSeq(word, 1, i)
         IN IF hasChild(t[parent], word[i])
            THEN walkCreate(t, word, i + 1)
            ELSE walkCreate(
                    [p \in DOMAIN t \cup {path} |->
                        IF p = path THEN NewTrieNode
                        ELSE IF p = parent
                             THEN [t[p] EXCEPT !.children = Append(@, word[i])]
                             ELSE t[p]],
                    word, i + 1)

\* mutant: a node that is already terminal keeps the data it has
insertWord_KeepFirst(t, word, city, weight) ==
    LET w == walkCreate(t, word, 1)
    IN IF w[word].isEndOfWord THEN w
       ELSE [w EXCEPT ![word] =
                [@ EXCEPT !.isEndOfWord = TRUE, !.weight = weight, !.city = city]]

insertWord(t, word, city, weight) ==
    [walkCreate(t, word, 1) EXCEPT ![word] =
        [@ EXCEPT !.isEndOfWord = TRUE, !.weight = weight, !.city = city]]

RECURSIVE insertAlternates(_, _, _, _)
insertAlternates(t, names, k, city) ==
    IF k > Len(names) THEN t
    ELSE insertAlternates(
            insertWord(t, toLowerCase(trim(names[k])), city, ALT_NAME_WEIGHT),
            names, k + 1, city)

\* mutant: the primary name is written after the other fields
insert_PrimaryLast(t, id) ==
    LET c == City(id)
        t1 == IF c.ascii # <<>>
              THEN insertWord(t, toLowerCase(c.ascii), id, ASCII_WEIGHT)
              ELSE t
        t2 == IF c.altName # <<>>
              THEN insertAlternates(t1, split(c.altName), 1, id)
              ELSE t1
    IN insertWord(t2, toLowerCase(c.name), id, NAME_WEIGHT)

insert(t, id) ==
    LET c == City(id)
        t1 == insertWord(t, toLowerCase(c.name), id, NAME_WEIGHT)
        t2 == IF c.ascii # <<>>
              THEN insertWord(t1, toLowerCase(c.ascii), id, ASCII_WEIGHT)
              ELSE t1
    IN IF c.altName # <<>>
       THEN insertAlternates(t2, split(c.altName), 1, id)
       ELSE t2

RECURSIVE collectWords(_, _)
collectWords(t, path) ==
    LET node == t[path]
        here == IF node.isEndOfWord
                THEN <<[city |-> node.city, weight |-> node.weight]>>
                ELSE <<>>
        RECURSIVE below(_)
        below(k) == IF k > Len(node.children) THEN <<>>
                    ELSE collectWords(t, Append(path, node.children[k])) \o below(k + 1)
    IN here \o below(1)

\* the loop of search: TRUE when every character of p has a matching child
RECURSIVE walkFind(_, _, _)
walkFind(t, p, i) ==
    IF i > Len(p) THEN TRUE
    ELSE IF hasChild(t[SubSeq(p, 1, i - 1)], p[i]) THEN walkFind(t, p, i + 1)
    ELSE FALSE

search(t, prefix) ==
    LET p == toLowerCase(prefix)
    IN IF walkFind(t, p, 1) THEN collectWords(t, p) ELSE <<>>

\* ----------------------------------------------------------- fuzzy matcher
\* fuzzyset.js: a value is indexed under its lower-cased form, and a value whose
\* lower-cased form is already indexed is not added again
normalizeStr(s) == toLowerCase(s)

fuzzySetAdd(fs, value) ==
    IF \E k \in 1..Len(fs) : fs[k].norm = normalizeStr(value)
    THEN fs
    ELSE Append(fs, [norm |-> normalizeStr(value), orig |-> value])

mapSet(m, key, value) ==
    [k \in DOMAIN m \cup {key} |-> IF k = key THEN value ELSE m[k]]

\* one row of the edit-distance table from the row above it: row[j + 1] is the
\* distance between the first i characters of s and the first j of t
RECURSIVE levenshteinRow(_, _, _, _)
levenshteinRow(above, ch, t, row) ==
    IF Len(row) = Len(t) + 1 THEN row
    ELSE LET j == Len(row)
         IN levenshteinRow(above, ch, t,
                Append(row, Min(Min(above[j + 1] + 1, row[j] + 1),
                                above[j] + (IF ch = t[j] THEN 0 ELSE 1))))

RECURSIVE levenshteinRows(_, _, _, _)
levenshteinRows(s, t, i, above) ==
    IF i > Len(s) THEN above[Len(t) + 1]
    ELSE levenshteinRows(s, t, i + 1, levenshteinRow(above, s[i], t, <<above[1] + 1>>))

levenshtein(s, t) == levenshteinRows(s, t, 1, [j \in 1..(Len(t) + 1) |-> j - 1])

\* fuzzyset.js _distance: 1 - levenshtein / (length of the longer string)
distance(s, t) ==
    LET n == Max(Len(s), Len(t))
    IN IF n = 0 THEN 1000 ELSE ((n - levenshtein(s, t)) * 1000) \div n

\* One step of Array.prototype.sort((a, b) => b.score - a.score): x moves in
\* front of e exactly when the comparator is positive, which it is for no NaN
scoreGreater(a, b) == a # NaN /\ b # NaN /\ a > b

RECURSIVE slot(_, _, _)
slot(sorted, x, k) ==
    IF k = 0 THEN 0
    ELSE IF scoreGreater(x.score, sorted[k].score) THEN slot(sorted, x, k - 1)
    ELSE k

RECURSIVE sortDescending(_)
sortDescending(s) ==
    IF Len(s) <= 1 THEN s
    ELSE LET sorted == sortDescending(SubSeq(s, 1, Len(s) - 1))
             x == s[Len(s)]
             p == slot(sorted, x, Len(sorted))
         IN SubSeq(sorted, 1, p) \o <<x>> \o SubSeq(sorted, p + 1, Len(sorted))

slice(s, n) == SubSeq(s, 1, Min(n, Len(s)))

\* fuzzySet.get(query): the indexed values scoring at least MinMatchScore,
\* best first, each reported by the spelling it was first added with
fuzzySetGet(fs, query) ==
    LET q == normalizeStr(query)
        scored == [k \in 1..Len(fs) |->
                      [score |-> distance(fs[k].norm, q), name |-> fs[k].orig]]
    IN SelectSeq(sortDescending(scored), LAMBDA r : r.score >= MinMatchScore)

addName(f, name, id) ==
    [set |-> fuzzySetAdd(f.set, name), map |-> mapSet(f.map, name, id)]

RECURSIVE addAlternates(_, _, _, _)
addAlternates(f, names, k, id) ==
    IF k > Len(names) THEN f
    ELSE addAlternates(addName(f, trim(names[k]), id), names, k + 1, id)

addCity(f, id) ==
    LET c == City(id)
        f1 == addName(f, c.name, id)
        f2 == IF c.ascii # <<>> THEN addName(f1, c.ascii, id) ELSE f1
    IN IF c.altName # <<>> THEN addAlternates(f2, split(c.altName), 1, id) ELSE f2

\* mutant: a match without a place in the map is kept
findMatches_KeepUnresolved(fs, m, query) ==
    LET matches == fuzzySetGet(fs, query)
    IN [k \in 1..Len(matches) |->
           [city |-> IF matches[k].name \in DOMAIN m
                     THEN m[matches[k].name] ELSE Null,
            similarity |-> matches[k].score]]

findMatches(fs, m, query) ==
    LET matches == fuzzySetGet(fs, query)
        mapped == [k \in 1..Len(matches) |->
                      [city |-> IF matches[k].name \in DOMAIN m
                                THEN m[matches[k].name] ELSE Null,
                       similarity |-> matches[k].score]]
    IN SelectSeq(mapped, LAMBDA r : r.city # Null)

\* ----------------------------------------------------------- scoring model
\* mutant: the score grows with the distance
calculateProximityScore_FarIsBetter(cityLatitude, cityLongitude, userLatitude, userLongitude) ==
    LET d == Abs(cityLatitude - userLatitude)
    IN [distance |-> d,
        score |-> Min(1000, (1000 * d) \div MAX_DISTANCE_KM)]

\* Haversine distance of two points of one meridian, in km, and the score
\* max(0, 1 - distance / MAX_DISTANCE_KM) in thousandths
calculateProximityScore(cityLatitude, cityLongitude, userLatitude, userLongitude) ==
    LET d == Abs(cityLatitude - userLatitude)
    IN [distance |-> d,
        score |-> Max(0, 1000 - (1000 * d) \div MAX_DISTANCE_KM)]

\* Math.log10 in thousandths, for the populations of CityPool
log10(n) ==
    CASE n = 1 -> 0
      [] n = 10 -> 1000
      [] n = 1000 -> 3000
      [] n = 2731571 -> 6436

\* Math.ceil(Math.log10(n)) for n >= 1
RECURSIVE ceilLog10(_)
ceilLog10(n) == IF n <= 1 THEN 0 ELSE 1 + ceilLog10((n + 9) \div 10)

RECURSIVE maxOf(_)
maxOf(s) == IF s = <<>> THEN 0 ELSE Max(Head(s), maxOf(Tail(s)))

getMaxPopulation(catalog) ==
    maxOf([k \in 1..Len(catalog) |-> City(catalog[k]).population])

\* mutant: the divisor is log10(max), not rounded up
calculatePopulationScore_NoCeil(id, catalog) ==
    LET population == City(id).population
        maxPopulation == getMaxPopulation(catalog)
    IN IF population = 0 THEN 0
       ELSE IF log10(maxPopulation) = 0 THEN NaN
       ELSE (1000 * log10(population)) \div log10(maxPopulation)

\* log10(population) / ceil(log10(max)); a population of 0 scores 0 whatever
\* the divisor; 0 / 0 is NaN
calculatePopulationScore(id, catalog) ==
    LET population == City(id).population
        maxPopulation == getMaxPopulation(catalog)
    IN IF population = 0 THEN 0
       ELSE IF ceilLog10(maxPopulation) = 0
            THEN NaN
            ELSE log10(population) \div ceilLog10(maxPopulation)

combineScores(textMatchScore, additionalScore, weight) ==
    IF textMatchScore = NaN \/ additionalScore = NaN THEN NaN
    ELSE textMatchScore * (100 - weight) + additionalScore * weight

\* mutant: the country and timezone segments are written even when absent
formatCityName_AlwaysSegments(id) ==
    LET c == City(id)
    IN c.name \o <<",", " ">> \o c.country \o <<",", " ">> \o c.timezone

formatCityName(id) ==
    LET c == City(id)
    IN c.name
       \o (IF c.country # <<>> THEN <<",", " ">> \o c.country ELSE <<>>)
       \o (IF c.timezone # <<>> THEN <<",", " ">> \o c.timezone ELSE <<>>)

\* mutant: the population weight is used whatever the secondary score is
createSuggestion_PopulationWeightAlways(id, textMatchScore, userLat, userLon, catalog, source) ==
    LET c == City(id)
        proximity == userLat # Undefined /\ userLon # Undefined
        additionalScore ==
            IF proximity
            THEN calculateProximityScore(c.latitude, c.longitude,
                                         userLat[1], userLon[1]).score
            ELSE calculatePopulationScore(id, catalog)
    IN [name |-> formatCityName(id),
        latitude |-> c.latitude,
        longitude |-> c.longitude,
        score |-> combineScores(textMatchScore, additionalScore, POPULATION_WEIGHT),
        city |-> id, textScore |-> textMatchScore, source |-> source]

\* The suggestion entity is name, latitude, longitude, score; city, textScore
\* and source record where the entity came from and are not part of it.
createSuggestion(id, textMatchScore, userLat, userLon, catalog, source) ==
    LET c == City(id)
        proximity == userLat # Undefined /\ userLon # Undefined
        additionalScore ==
            IF proximity
            THEN calculateProximityScore(c.latitude, c.longitude,
                                         userLat[1], userLon[1]).score
            ELSE calculatePopulationScore(id, catalog)
        weight == IF proximity THEN PROXIMITY_WEIGHT ELSE POPULATION_WEIGHT
    IN [name |-> formatCityName(id),
        latitude |-> c.latitude,
        longitude |-> c.longitude,
        score |-> combineScores(textMatchScore, additionalScore, weight),
        city |-> id, textScore |-> textMatchScore, source |-> source]

rankAndLimitSuggestions(s) == slice(sortDescending(s), MAX_SUGGESTIONS)

\* ------------------------------------------------------------ orchestrator
\* Each handler yields the entities it adds to the Set and, as a record of the
\* calls it makes, the collaborators it consults. Every entity added is a new
\* object, so the Set keeps each of them, in insertion order.
\* mutant: the fuzzy matches are added whether or not there is a prefix hit
handleQueryWithLocation_FuzzyAlways(query, latitude, longitude) ==
    LET trieMatches == search(root, query)
        fuzzyMatches == findMatches(fuzzySet, cityMap, query)
    IN [consulted |-> {"trie", "fuzzy"},
        suggestions |->
            [k \in 1..Len(trieMatches) |->
                createSuggestion(trieMatches[k].city, trieMatches[k].weight,
                                 latitude, longitude, cities, "trie")]
            \o [k \in 1..Len(fuzzyMatches) |->
                createSuggestion(fuzzyMatches[k].city, fuzzyMatches[k].similarity,
                                 latitude, longitude, cities, "fuzzy")]]

\* mutant: candidates farther than MAX_DISTANCE_KM are dropped
handleQueryWithLocation_NearOnly(query, latitude, longitude) ==
    LET trieMatches == search(root, query)
        fuzzyMatches == findMatches(fuzzySet, cityMap, query)
        near(id) == calculateProximityScore(City(id).latitude, City(id).longitude,
                                            latitude[1], longitude[1]).distance
                        <= MAX_DISTANCE_KM
        all == IF Len(trieMatches) > 0
               THEN [k \in 1..Len(trieMatches) |->
                        createSuggestion(trieMatches[k].city, trieMatches[k].weight,
                                         latitude, longitude, cities, "trie")]
               ELSE [k \in 1..Len(fuzzyMatches) |->
                        createSuggestion(fuzzyMatches[k].city,
                                         fuzzyMatches[k].similarity,
                                         latitude, longitude, cities, "fuzzy")]
    IN [consulted |-> IF Len(trieMatches) > 0 THEN {"trie"} ELSE {"trie", "fuzzy"},
        suggestions |-> SelectSeq(all, LAMBDA s : near(s.city))]

handleQueryWithLocation(query, latitude, longitude) ==
    LET trieMatches == search(root, query)
        fuzzyMatches == findMatches(fuzzySet, cityMap, query)
    IN IF Len(trieMatches) > 0
       THEN [consulted |-> {"trie"},
             suggestions |->
                [k \in 1..Len(trieMatches) |->
                    createSuggestion(trieMatches[k].city, trieMatches[k].weight,
                                     latitude, longitude, cities, "trie")]]
       ELSE [consulted |-> {"trie", "fuzzy"},
             suggestions |->
                [k \in 1..Len(fuzzyMatches) |->
                    createSuggestion(fuzzyMatches[k].city, fuzzyMatches[k].similarity,
                                     latitude, longitude, cities, "fuzzy")]]

\* mutant: the fuzzy matches are a fallback for a query without prefix hits
handleQueryOnly_FuzzyOnlyWithoutHits(query) ==
    LET trieMatches == search(root, query)
        fromTrie == [k \in 1..Len(trieMatches) |->
                        createSuggestion(trieMatches[k].city, trieMatches[k].weight,
                                         Undefined, Undefined, cities, "trie")]
        fuzzyMatches == findMatches(fuzzySet, cityMap, query)
        fromFuzzy == [k \in 1..Len(fuzzyMatches) |->
                         createSuggestion(fuzzyMatches[k].city,
                                          fuzzyMatches[k].similarity,
                                          Undefined, Undefined, cities, "fuzzy")]
        all == IF Len(fromTrie) = 0 THEN fromFuzzy ELSE fromTrie
    IN [consulted |-> {"trie"}
                      \cup (IF Len(fromTrie) = 0 THEN {"fuzzy"} ELSE {})
                      \cup (IF Len(all) > 0 THEN {"catalog"} ELSE {}),
        suggestions |-> all]

handleQueryOnly(query) ==
    LET trieMatches == search(root, query)
        fromTrie == [k \in 1..Len(trieMatches) |->
                        createSuggestion(trieMatches[k].city, trieMatches[k].weight,
                                         Undefined, Undefined, cities, "trie")]
        processedCities == {trieMatches[k].city : k \in 1..Len(trieMatches)}
        fuzzyMatches == SelectSeq(findMatches(fuzzySet, cityMap, query),
                                  LAMBDA m : m.city \notin processedCities)
        fromFuzzy == [k \in 1..Len(fuzzyMatches) |->
                         createSuggestion(fuzzyMatches[k].city,
                                          fuzzyMatches[k].similarity,
                                          Undefined, Undefined, cities, "fuzzy")]
        all == IF Len(fromTrie) < MAX_SUGGESTIONS THEN fromTrie \o fromFuzzy
               ELSE fromTrie
    IN [consulted |-> {"trie"}
                      \cup (IF Len(fromTrie) < MAX_SUGGESTIONS THEN {"fuzzy"} ELSE {})
                      \cup (IF Len(all) > 0 THEN {"catalog"} ELSE {}),
        suggestions |-> all]

\* mutant: a far place is scored 0 and kept
getNearbyCities_NoDistanceFilter(latitude, longitude) ==
    LET scored == [k \in 1..Len(cities) |->
                      LET c == City(cities[k])
                          r == calculateProximityScore(c.latitude, c.longitude,
                                                       latitude[1], longitude[1])
                      IN [city |-> cities[k], score |-> r.score,
                          distance |-> r.distance]]
    IN slice(sortDescending(scored), MAX_SUGGESTIONS)

getNearbyCities(latitude, longitude) ==
    LET scored == [k \in 1..Len(cities) |->
                      LET c == City(cities[k])
                          r == calculateProximityScore(c.latitude, c.longitude,
                                                       latitude[1], longitude[1])
                      IN [city |-> cities[k], score |-> r.score,
                          distance |-> r.distance]]
        near == SelectSeq(scored, LAMBDA r : r.distance <= MAX_DISTANCE_KM)
    IN slice(sortDescending(near), MAX_SUGGESTIONS)

handleLocationOnly(latitude, longitude) ==
    LET nearbyCities == getNearbyCities(latitude, longitude)
    IN [consulted |-> {"catalog"},
        suggestions |->
            [k \in 1..Len(nearbyCities) |->
                createSuggestion(nearbyCities[k].city, nearbyCities[k].score,
                                 latitude, longitude, cities, "nearby")]]

\* mutant: an empty query string counts as a query
hasQueryOf_EmptyCounts(req) == req.q # Undefined

hasQueryOf(req) == req.q # Undefined /\ req.q[1] # <<>>
\* mutant: the latitude alone counts as coordinates
hasCoordinatesOf_LatitudeOnly(req) == req.latitude # Undefined

hasCoordinatesOf(req) == req.latitude # Undefined /\ req.longitude # Undefined

\* ---------------------------------------------------------------- requests
Queries ==
    {Undefined, Some(<<>>), Some(<<"a">>), Some(<<"A", "b">>), Some(<<"b">>),
     Some(<<"b", "b", "b">>), Some(<<"T", "o", "r", "o", "n", "t", "o">>)}
Latitudes == {Undefined, Some(0)}
Longitudes == {Undefined, Some(0)}

NoRequest == [q |-> Undefined, latitude |-> Undefined, longitude |-> Undefined]

\* two callers, so that one call can be suspended while another runs
Callers == {1, 2}

IdleCall ==
    [pc |-> "idle", request |-> NoRequest, branch |-> "idle", consulted |-> {},
     suggestions |-> <<>>, response |-> <<>>, error |-> "none", alone |-> <<>>]

Init ==
    /\ cities = <<>>
    /\ phase = "loading"
    /\ initError = "none"
    /\ root = EmptyTrie
    /\ fuzzySet = <<>>
    /\ cityMap = <<>>
    /\ request = NoRequest
    /\ branch = "idle"
    /\ consulted = {}
    /\ suggestions = <<>>
    /\ response = <<>>
    /\ error = "none"
    /\ listening = FALSE
    /\ inflight = [c \in Callers |-> IdleCall]

\* The repository reads one more record of the data file.
LoadCity(id) ==
    /\ phase = "loading"
    /\ Len(cities) < MaxCities
    /\ \A k \in 1..Len(cities) : cities[k] # id
    /\ cities' = Append(cities, id)
    /\ UNCHANGED <<phase, initError, root, fuzzySet, cityMap, call, serving>>

\* mutant: the loop stops after the first place and the index is published
insertAll_FirstOnly(t, catalog, k) ==
    IF catalog = <<>> THEN t ELSE insert(t, catalog[1])

RECURSIVE insertAll(_, _, _)
insertAll(t, catalog, k) ==
    IF k > Len(catalog) THEN t ELSE insertAll(insert(t, catalog[k]), catalog, k + 1)

RECURSIVE addAll(_, _, _)
addAll(f, catalog, k) ==
    IF k > Len(catalog) THEN f ELSE addAll(addCity(f, catalog[k]), catalog, k + 1)

\* onModuleInit / initializeCities up to `await getAllCities()`
InitializeCities ==
    /\ phase = "loading"
    /\ phase' = "initializing"
    /\ UNCHANGED <<cities, initError, root, fuzzySet, cityMap, call, serving>>

\* initializeCities resumed with the catalog: the forEach runs to its end
\* without an await, so no other code runs between two insertions
OnModuleInit ==
    /\ phase = "initializing"
    /\ root' = insertAll(root, cities, 1)
    /\ \E f \in {addAll([set |-> fuzzySet, map |-> cityMap], cities, 1)} :
          fuzzySet' = f.set /\ cityMap' = f.map
    /\ phase' = "ready"
    /\ UNCHANGED <<cities, initError, call, serving>>

\* onModuleInit / initializeCities, getAllCities rejecting: the error is
\* logged and rethrown, and nothing runs the initialization again
OnModuleInitFails ==
    /\ phase = "initializing"
    /\ phase' = "failed"
    /\ initError' = "Failed to load cities"
    /\ UNCHANGED <<cities, root, fuzzySet, cityMap, call, serving>>

handle(req) ==
    IF hasQueryOf(req) /\ hasCoordinatesOf(req)
    THEN [branch |-> "queryWithLocation"]
         @@ handleQueryWithLocation(req.q[1], req.latitude, req.longitude)
    ELSE IF hasQueryOf(req) /\ ~hasCoordinatesOf(req)
    THEN [branch |-> "queryOnly"] @@ handleQueryOnly(req.q[1])
    ELSE IF ~hasQueryOf(req) /\ hasCoordinatesOf(req)
    THEN [branch |-> "locationOnly"]
         @@ handleLocationOnly(req.latitude, req.longitude)
    ELSE [branch |-> "none", consulted |-> {}, suggestions |-> <<>>]

\* getSuggestions, from the call to the returned list; no call is in progress
GetSuggestions(q, latitude, longitude) ==
    LET req == [q |-> q, latitude |-> latitude, longitude |-> longitude]
    IN /\ phase \in {"ready", "failed"}
       /\ branch = "idle"
       /\ request' = req
       /\ IF ~hasQueryOf(req) /\ hasCoordinatesOf(req) /\ phase = "failed"
          THEN \* getAllCities rejects and nothing catches it
               /\ branch' = "locationOnly"
               /\ consulted' = {"catalog"}
               /\ suggestions' = <<>>
               /\ response' = <<>>
               /\ error' = "getAllCities rejected"
          ELSE /\ \E h \in {handle(req)} :
                     /\ branch' = h.branch
                     /\ consulted' = h.consulted
                     /\ suggestions' = h.suggestions
               /\ response' = rankAndLimitSuggestions(suggestions')
               /\ error' = "none"
       /\ UNCHANGED <<cities, phase, initError, root, fuzzySet, cityMap, serving>>

\* The caller has its answer; the call's locals are gone.
Return ==
    /\ branch # "idle"
    /\ request' = NoRequest
    /\ branch' = "idle"
    /\ consulted' = {}
    /\ suggestions' = <<>>
    /\ response' = <<>>
    /\ error' = "none"
    /\ UNCHANGED <<cities, phase, initError, root, fuzzySet, cityMap, serving>>

Next ==
    \/ \E id \in CityIds : LoadCity(id)
    \/ InitializeCities
    \/ OnModuleInit
    \/ OnModuleInitFails
    \/ \E q \in Queries, latitude \in Latitudes, longitude \in Longitudes :
          GetSuggestions(q, latitude, longitude)
    \/ Return

Spec == Init /\ [][Next]_vars

\* ------------------------------------------------- calls at their await points
\* The same service with each getSuggestions call cut where it awaits, so that
\* calls and the initialization interleave as the event loop lets them.
InterleavedCatalogs == {<<1, 2>>, <<4, 3>>, <<5, 6>>, <<2, 4, 1>>}

InterleavedRequests ==
    {[q |-> Some(<<"a">>), latitude |-> Undefined, longitude |-> Undefined],
     [q |-> Some(<<"b", "b", "b">>), latitude |-> Undefined, longitude |-> Undefined],
     [q |-> Some(<<"A", "b">>), latitude |-> Some(0), longitude |-> Some(0)],
     [q |-> Undefined, latitude |-> Some(0), longitude |-> Some(0)]}

\* loadCitiesFromFile resumed with the file's text: every record is pushed in
\* one loop without an await
LoadCitiesFromFile(catalog) ==
    /\ phase = "loading"
    /\ cities = <<>>
    /\ cities' = catalog
    /\ UNCHANGED <<phase, initError, root, fuzzySet, cityMap, call, serving>>

\* bootstrap: app.listen resolves after the onModuleInit hooks have resolved;
\* a hook that rejects makes bootstrap reject before the server listens
Listen ==
    /\ phase = "ready"
    /\ ~listening
    /\ listening' = TRUE
    /\ UNCHANGED <<cities, phase, initError, root, fuzzySet, cityMap, call, inflight>>

\* mutant: one Set, a field of the service, is shared by the calls
newSet_Shared(others) == others

\* new Set<SuggestionEntity>(): empty, whatever the other calls have collected
newSet(others) == <<>>

othersOf(c) == inflight[CHOOSE d \in Callers : d # c].suggestions

\* getSuggestions from its call to its first await: the query branches run
\* their handler to the end, the coordinates-only branch stops in
\* getNearbyCities at `await getAllCities()`
Begin(c, req) ==
    /\ phase \in {"initializing", "ready", "failed", "reinitializing"}
    /\ inflight[c].pc \in {"idle", "done"}
    /\ \E h \in {handle(req)} :
          inflight' = [inflight EXCEPT ![c] =
              IF h.branch = "locationOnly"
              THEN [pc |-> IF phase = "failed" THEN "done" ELSE "getAllCities",
                    request |-> req, branch |-> h.branch,
                    consulted |-> {"catalog"},
                    suggestions |-> newSet(othersOf(c)), response |-> <<>>,
                    error |-> IF phase = "failed" THEN "getAllCities rejected"
                              ELSE "none",
                    alone |-> rankAndLimitSuggestions(h.suggestions)]
              ELSE [pc |-> "collected", request |-> req, branch |-> h.branch,
                    consulted |-> h.consulted,
                    suggestions |-> newSet(othersOf(c)) \o h.suggestions,
                    response |-> <<>>, error |-> "none",
                    alone |-> rankAndLimitSuggestions(h.suggestions)]]
    /\ UNCHANGED <<cities, phase, initError, root, fuzzySet, cityMap, call, listening>>

\* getNearbyCities resumed with the catalog, then handleLocationOnly resumed
\* with the nearby places (that second step reads the call's locals only)
ResumeNearby(c) ==
    /\ inflight[c].pc = "getAllCities"
    /\ inflight' = [inflight EXCEPT ![c] =
          [@ EXCEPT !.pc = "collected",
                    !.suggestions =
                        @ \o handleLocationOnly(inflight[c].request.latitude,
                                                inflight[c].request.longitude).suggestions]]
    /\ UNCHANGED <<cities, phase, initError, root, fuzzySet, cityMap, call, listening>>

\* getSuggestions resumed after its handler: rank, limit and return
Finish(c) ==
    /\ inflight[c].pc = "collected"
    /\ inflight' = [inflight EXCEPT ![c] =
          [@ EXCEPT !.pc = "done",
                    !.response = rankAndLimitSuggestions(inflight[c].suggestions)]]
    /\ UNCHANGED <<cities, phase, initError, root, fuzzySet, cityMap, call, listening>>

NextInterleaved ==
    \/ \E catalog \in InterleavedCatalogs : LoadCitiesFromFile(catalog)
    \/ InitializeCities
    \/ OnModuleInit
    \/ OnModuleInitFails
    \/ Listen
    \/ \E c \in Callers, req \in InterleavedRequests : Begin(c, req)
    \/ \E c \in Callers : ResumeNearby(c)
    \/ \E c \in Callers : Finish(c)

SpecInterleaved == Init /\ [][NextInterleaved]_vars

\* ------------------------------------------------- a second initialization
\* The catalog the repository resolves with changes. The step is taken once
\* per index: while the index is still the one built from the catalog held.
ReloadCatalog(catalog) ==
    /\ phase = "ready"
    /\ root = insertAll(EmptyTrie, cities, 1)
    /\ catalog # cities
    /\ cities' = catalog
    /\ UNCHANGED <<phase, initError, root, fuzzySet, cityMap, call, serving>>

\* onModuleInit called again, up to `await getAllCities()`
Reinitialize ==
    /\ phase = "ready"
    /\ phase' = "reinitializing"
    /\ UNCHANGED <<cities, initError, root, fuzzySet, cityMap, call, serving>>

\* initializeCities resumed: the forEach inserts into the root and the fuzzy
\* set the services were constructed with
Reindex ==
    /\ phase = "reinitializing"
    /\ root' = insertAll(root, cities, 1)
    /\ \E f \in {addAll([set |-> fuzzySet, map |-> cityMap], cities, 1)} :
          fuzzySet' = f.set /\ cityMap' = f.map
    /\ phase' = "ready"
    /\ UNCHANGED <<cities, initError, call, serving>>

NextReload ==
    \/ \E catalog \in InterleavedCatalogs : LoadCitiesFromFile(catalog)
    \/ InitializeCities
    \/ OnModuleInit
    \/ \E catalog \in InterleavedCatalogs : ReloadCatalog(catalog)
    \/ Reinitialize
    \/ Reindex
    \/ \E req \in InterleavedRequests : Begin(1, req)
    \/ ResumeNearby(1)
    \/ Finish(1)

SpecReload == Init /\ [][NextReload]_vars

\* ================================================================== claims
queryPresent == request.q # Undefined /\ Len(request.q[1]) > 0
coordinatesPresent == request.latitude # Undefined /\ request.longitude # Undefined

citiesOf(list) == {list[k].city : k \in 1..Len(list)}
catalogIds == {cities[k] : k \in 1..Len(cities)}
count(list, x) == Cardinality({k \in 1..Len(list) : list[k] = x})
bySource(list, source) == SelectSeq(list, LAMBDA e : e.source = source)

\* the lower-cased names a place is indexed under
indexedNames(id) ==
    {toLowerCase(City(id).name)}
    \cup (IF City(id).ascii # <<>> THEN {toLowerCase(City(id).ascii)} ELSE {})
    \cup (IF City(id).altName # <<>>
          THEN {toLowerCase(trim(split(City(id).altName)[k])) :
                    k \in 1..Len(split(City(id).altName))}
          ELSE {})

\* km between a place and the caller of the request, and the proximity score
kmFromCaller(id) == Abs(City(id).latitude - request.latitude[1])
proximityOf(id) ==
    IF kmFromCaller(id) >= MAX_DISTANCE_KM THEN 0
    ELSE 1000 - (1000 * kmFromCaller(id)) \div MAX_DISTANCE_KM

scoreAtLeast(a, b) == a # NaN /\ b # NaN /\ a >= b

\* C1: no place appears more than once in the list getSuggestions returns,
\* whichever branch produced it and however many of its names matched.
C1_NoPlaceTwice ==
    \A i, j \in 1..Len(response) : i # j => response[i].city # response[j].city

\* C2: the returned list is ordered by non-increasing final score: each
\* suggestion's score is at least the score of the one after it.
C2_SortedByScore ==
    \A i \in 1..(Len(response) - 1) :
        scoreAtLeast(response[i].score, response[i + 1].score)

\* C3: at most MAX_SUGGESTIONS suggestions are returned, and no candidate left
\* out has a strictly higher score than a suggestion returned.
C3_TopScoresReturned ==
    /\ Len(response) <= MAX_SUGGESTIONS
    /\ \A i \in 1..Len(suggestions) :
          count(suggestions, suggestions[i]) > count(response, suggestions[i])
          => \A j \in 1..Len(response) :
                ~scoreGreater(suggestions[i].score, response[j].score)
    /\ (branch = "locationOnly" /\ error = "none")
       => \A id \in catalogIds :
             (kmFromCaller(id) <= MAX_DISTANCE_KM /\ id \notin citiesOf(response))
             => \A j \in 1..Len(response) :
                   ~scoreGreater(100 * proximityOf(id), response[j].score)

\* C4: the branch taken is decided by the presence of a non-empty query and of
\* both coordinates alone; nearby candidates appear in the coordinates-only
\* branch and in no other; with neither input the answer is the empty list and
\* no index and no catalog is consulted.
C4_BranchByPresence ==
    branch # "idle" =>
        /\ branch = (IF queryPresent /\ coordinatesPresent THEN "queryWithLocation"
                     ELSE IF queryPresent THEN "queryOnly"
                     ELSE IF coordinatesPresent THEN "locationOnly"
                     ELSE "none")
        /\ \A k \in 1..Len(suggestions) :
              (suggestions[k].source = "nearby") <=> (branch = "locationOnly")
        /\ (~queryPresent /\ ~coordinatesPresent)
           => (response = <<>> /\ suggestions = <<>> /\ consulted = {})

C4_Witness ==
    /\ branch = "none"
    /\ request.q = Some(<<>>)
    /\ phase = "ready"
    /\ cities # <<>>
    /\ response = <<>>

\* C5: with a query and coordinates, the candidates are the prefix hits, each
\* with its field weight as text score, when there is a prefix hit, and the
\* fuzzy matches, each with its similarity, when there is none; the fuzzy
\* matcher is called only in the second case; either way the final score
\* blends the text score with proximity at PROXIMITY_WEIGHT.
C5_FuzzyOnlyWithoutPrefixHits ==
    branch = "queryWithLocation" =>
        LET hits == search(root, request.q[1])
            matches == findMatches(fuzzySet, cityMap, request.q[1])
        IN /\ ("fuzzy" \in consulted) <=> (Len(hits) = 0)
           /\ Len(hits) > 0 =>
                 /\ Len(suggestions) = Len(hits)
                 /\ \A k \in 1..Len(hits) :
                       /\ suggestions[k].source = "trie"
                       /\ suggestions[k].city = hits[k].city
                       /\ suggestions[k].textScore = hits[k].weight
                       /\ hits[k].weight \in {NAME_WEIGHT, ASCII_WEIGHT, ALT_NAME_WEIGHT}
           /\ Len(hits) = 0 =>
                 /\ Len(suggestions) = Len(matches)
                 /\ \A k \in 1..Len(matches) :
                       /\ suggestions[k].source = "fuzzy"
                       /\ suggestions[k].city = matches[k].city
                       /\ suggestions[k].textScore = matches[k].similarity
           /\ \A k \in 1..Len(suggestions) :
                 suggestions[k].score =
                     suggestions[k].textScore * (100 - PROXIMITY_WEIGHT)
                     + proximityOf(suggestions[k].city) * PROXIMITY_WEIGHT

C5_Witness ==
    /\ branch = "queryWithLocation"
    /\ Len(search(root, request.q[1])) = 0
    /\ Len(suggestions) > 0
    /\ \E k \in 1..Len(suggestions) : suggestions[k].textScore < ALT_NAME_WEIGHT

\* C6: with a query alone, every prefix hit is a candidate; fuzzy matches are
\* added exactly when there are fewer than MAX_SUGGESTIONS prefix candidates,
\* and only for places no prefix hit has already brought in.
C6_FuzzySupplements ==
    branch = "queryOnly" =>
        LET hits == search(root, request.q[1])
            matches == SelectSeq(findMatches(fuzzySet, cityMap, request.q[1]),
                                 LAMBDA m : m.city \notin citiesOf(hits))
            fromTrie == bySource(suggestions, "trie")
            fromFuzzy == bySource(suggestions, "fuzzy")
        IN /\ suggestions = fromTrie \o fromFuzzy
           /\ Len(fromTrie) = Len(hits)
           /\ \A k \in 1..Len(hits) :
                 fromTrie[k].city = hits[k].city /\ fromTrie[k].textScore = hits[k].weight
           /\ ("fuzzy" \in consulted) <=> (Len(hits) < MAX_SUGGESTIONS)
           /\ Len(hits) >= MAX_SUGGESTIONS => fromFuzzy = <<>>
           /\ Len(hits) < MAX_SUGGESTIONS =>
                 /\ Len(fromFuzzy) = Len(matches)
                 /\ \A k \in 1..Len(matches) :
                       /\ fromFuzzy[k].city = matches[k].city
                       /\ fromFuzzy[k].textScore = matches[k].similarity
           /\ citiesOf(fromFuzzy) \cap citiesOf(fromTrie) = {}

C6_Witness ==
    /\ branch = "queryOnly"
    /\ bySource(suggestions, "trie") # <<>>
    /\ bySource(suggestions, "fuzzy") # <<>>
    /\ \E m \in citiesOf(findMatches(fuzzySet, cityMap, request.q[1])) :
          m \in citiesOf(bySource(suggestions, "trie"))

\* C7: with coordinates alone, the places suggested are exactly the catalog
\* places at most MAX_DISTANCE_KM from the caller (while no more than
\* MAX_SUGGESTIONS of them exist), a farther place is absent, and each final
\* score equals the proximity score max(0, 1 - distance / MAX_DISTANCE_KM).
C7_NearbyOnlyByProximity ==
    (branch = "locationOnly" /\ error = "none") =>
        LET near == {id \in catalogIds : kmFromCaller(id) <= MAX_DISTANCE_KM}
        IN /\ citiesOf(response) \subseteq near
           /\ Cardinality(near) <= MAX_SUGGESTIONS =>
                 (citiesOf(response) = near /\ Len(response) = Cardinality(near))
           /\ \A k \in 1..Len(response) :
                 response[k].score = 100 * proximityOf(response[k].city)

C7_Witness ==
    /\ branch = "locationOnly"
    /\ error = "none"
    /\ \E id \in catalogIds : kmFromCaller(id) = MAX_DISTANCE_KM + 1
    /\ \E k \in 1..Len(response) :
          kmFromCaller(response[k].city) = MAX_DISTANCE_KM /\ response[k].score = 0
    /\ \E k \in 1..Len(response) : response[k].score = 100000

Prefixes ==
    {<<>>, <<"a">>, <<"A">>, <<"b">>, <<"a", "b">>, <<"A", "B">>, <<"b", "a">>,
     <<"a", "b", "b">>, <<"b", "b">>, <<"a", "a", "b">>}

\* C8: once the catalog is inserted, search(p) holds a place if and only if one
\* of the place's indexed lower-cased names starts with lower-cased p.
C8_SearchIsPrefixFilter ==
    phase = "ready" =>
        \A p \in Prefixes : \A id \in catalogIds :
            (\E n \in indexedNames(id) : startsWith(n, toLowerCase(p)))
            <=> (id \in citiesOf(search(root, p)))

\* C9: once the catalog is inserted, every inserted place is in the result of
\* the empty-prefix search.
C9_EmptyPrefixHoldsEveryPlace ==
    phase = "ready" => catalogIds \subseteq citiesOf(search(root, <<>>))

\* C10: a request with a query or coordinates against an empty or unloaded
\* catalog fails with CatalogNotReady instead of answering with a list, and a
\* failed load leaves its error and is not run again.
C10_CatalogNotReady ==
    /\ (branch \notin {"idle", "none"} /\ (phase = "failed" \/ cities = <<>>))
       => error = "CatalogNotReady"
    /\ phase = "failed" => initError = "Failed to load cities"

\* the spellings a place is added to the fuzzy matcher under
fuzzyNames(id) ==
    {City(id).name}
    \cup (IF City(id).ascii # <<>> THEN {City(id).ascii} ELSE {})
    \cup (IF City(id).altName # <<>>
          THEN {trim(split(City(id).altName)[k]) :
                    k \in 1..Len(split(City(id).altName))}
          ELSE {})

indexIsEmpty == root = EmptyTrie /\ fuzzySet = <<>> /\ cityMap = <<>>

\* every name of every catalog place ends at a terminal trie node and is a key
\* of the fuzzy matcher
indexHoldsCatalog ==
    \A id \in catalogIds :
        /\ \A n \in indexedNames(id) : n \in DOMAIN root /\ root[n].isEndOfWord
        /\ \A n \in fuzzyNames(id) :
              /\ n \in DOMAIN cityMap
              /\ \E k \in 1..Len(fuzzySet) : fuzzySet[k].norm = toLowerCase(n)

queryCall(c) ==
    inflight[c].pc # "idle" /\ inflight[c].branch \in {"queryOnly", "queryWithLocation"}

\* C11: the indexes hold either nothing or every name of every catalog place,
\* at every point a getSuggestions call can run; the server listens only once
\* the build is complete; a lookup made while the service initializes found
\* nothing or what the complete index gives.
C11_IndexNoneOrAll ==
    /\ indexIsEmpty \/ indexHoldsCatalog
    /\ listening => (phase = "ready" /\ indexHoldsCatalog)
    /\ \A c \in Callers :
          (queryCall(c) /\ phase = "ready")
          => inflight[c].suggestions \in {<<>>, handle(inflight[c].request).suggestions}

C11_Witness ==
    /\ phase = "ready"
    /\ Len(cities) >= 2
    /\ ~indexIsEmpty
    /\ \E c \in Callers :
          /\ queryCall(c)
          /\ inflight[c].pc = "collected"
          /\ inflight[c].suggestions = <<>>
          /\ handle(inflight[c].request).suggestions # <<>>

\* C12: a step of a getSuggestions call leaves the prefix index, the fuzzy
\* matcher and the catalog (its order included) as they were, and a call that
\* has returned, however its steps interleaved with another call's, returned
\* the list the same request gives when it runs alone.
C12_ReadOnlyAndIndependent ==
    /\ [][inflight' # inflight => UNCHANGED <<cities, root, fuzzySet, cityMap>>]_vars
    /\ [](\A c \in Callers :
            (inflight[c].pc = "done" /\ inflight[c].error = "none")
            => inflight[c].response = inflight[c].alone)

C12_Witness ==
    /\ phase = "ready"
    /\ inflight[1].pc = "done"
    /\ inflight[1].branch = "locationOnly"
    /\ Len(inflight[1].response) >= 2
    /\ inflight[2].pc = "collected"
    /\ inflight[2].branch = "queryOnly"
    /\ inflight[2].suggestions # <<>>

QueryStrings == {q[1] : q \in {x \in Queries : x # Undefined /\ x[1] # <<>>}}

\* the reverse map without the key n
without(m, n) == [k \in DOMAIN m \ {n} |-> m[k]]

\* C13: findMatches answers with the empty list when the fuzzy set has no match
\* for the query, and leaves out (without failing) a matched spelling that the
\* reverse map, with any one key taken away, does not resolve; a query with no
\* prefix hit and no fuzzy match makes getSuggestions return the empty list
\* and no error.
C13_NoMatchIsEmptyNotError ==
    /\ (phase = "ready" /\ branch = "idle") => \A q \in QueryStrings :
          LET raw == fuzzySetGet(fuzzySet, q)
          IN /\ raw = <<>> => findMatches(fuzzySet, cityMap, q) = <<>>
             /\ Len(findMatches(fuzzySet, cityMap, q)) = Len(raw)
             /\ \A n \in DOMAIN cityMap :
                   LET kept == SelectSeq(raw, LAMBDA r : r.name # n)
                       found == findMatches(fuzzySet, without(cityMap, n), q)
                   IN /\ Len(found) = Len(kept)
                      /\ \A k \in 1..Len(kept) :
                            /\ found[k].city = cityMap[kept[k].name]
                            /\ found[k].similarity = kept[k].score
    /\ (/\ branch \in {"queryOnly", "queryWithLocation"}
        /\ search(root, request.q[1]) = <<>>
        /\ fuzzySetGet(fuzzySet, request.q[1]) = <<>>)
       => (response = <<>> /\ error = "none")

C13_Witness ==
    /\ phase = "ready"
    /\ branch = "queryOnly"
    /\ cities # <<>>
    /\ search(root, request.q[1]) = <<>>
    /\ fuzzySetGet(fuzzySet, request.q[1]) = <<>>
    /\ response = <<>>
    /\ error = "none"

\* C14: every suggestion getSuggestions returns has a final score that is a
\* number from 0 to 1, whatever the branch and the catalog.
C14_ScoreInUnitInterval ==
    \A k \in 1..Len(response) :
        /\ response[k].score # NaN
        /\ response[k].score >= 0
        /\ response[k].score <= 100000

\* log10(population) / ceil(log10(largest population)), in thousandths; 0 for a
\* population of 0; NaN where the quotient is 0 / 0
populationOf(id) ==
    LET largest == getMaxPopulation(cities)
    IN IF City(id).population = 0 THEN 0
       ELSE IF ceilLog10(largest) = 0 THEN NaN
       ELSE log10(City(id).population) \div ceilLog10(largest)

\* C15: the final score of every candidate is textScore * (1 - w) +
\* secondary * w, with the proximity score and w = PROXIMITY_WEIGHT exactly
\* when the request has both coordinates, and the population score and
\* w = POPULATION_WEIGHT otherwise (a NaN secondary score gives NaN); so a
\* prefix hit of weight 1.0 at the caller's coordinates scores 1.
C15_BlendBySecondaryScore ==
    (branch \notin {"idle", "none"} /\ error = "none") =>
        \A k \in 1..Len(suggestions) :
            LET e == suggestions[k]
                w == IF coordinatesPresent THEN PROXIMITY_WEIGHT ELSE POPULATION_WEIGHT
                secondary == IF coordinatesPresent THEN proximityOf(e.city)
                             ELSE populationOf(e.city)
            IN /\ e.score = (IF secondary = NaN THEN NaN
                             ELSE e.textScore * (100 - w) + secondary * w)
               /\ (/\ coordinatesPresent
                   /\ e.source = "trie"
                   /\ e.textScore = 1000
                   /\ kmFromCaller(e.city) = 0) => e.score = 100000

C15_Witness ==
    /\ branch = "queryWithLocation"
    /\ \E k \in 1..Len(response) :
          /\ response[k].source = "trie"
          /\ response[k].textScore = NAME_WEIGHT
          /\ kmFromCaller(response[k].city) = 0
          /\ response[k].score = 100000
    /\ \E k \in 1..Len(response) :
          kmFromCaller(response[k].city) > 0 /\ response[k].score < 100000

\* C16: within a catalog, a place with the larger population has a population
\* score at least that of a place with the smaller one, and a place whose
\* population is 0 scores 0.
C16_PopulationScoreMonotone ==
    phase = "ready" =>
        \A x, y \in catalogIds :
            /\ City(x).population > City(y).population
               => scoreAtLeast(calculatePopulationScore(x, cities),
                               calculatePopulationScore(y, cities))
            /\ City(x).population = 0 => calculatePopulationScore(x, cities) = 0

Toronto == <<"T", "o", "r", "o", "n", "t", "o">>

TorontoDisplayName ==
    Toronto \o <<",", " ", "C", "A", ",", " ">>
    \o <<"A", "m", "e", "r", "i", "c", "a", "/">> \o Toronto

torontoAlone ==
    /\ phase = "ready"
    /\ cities = <<7>>
    /\ branch = "queryOnly"
    /\ request.q = Some(Toronto)

\* C17 as stated: with Toronto alone in the catalog, the query-only request
\* q = "Toronto" returns one suggestion, "Toronto, CA, America/Toronto", with
\* score 1.
C17_TorontoScoresOne ==
    torontoAlone =>
        /\ Len(response) = 1
        /\ response[1].name = TorontoDisplayName
        /\ response[1].score = 100000

\* C17 amended: with Toronto alone in the catalog, the query-only request
\* q = "Toronto" returns one suggestion, "Toronto, CA, America/Toronto", with
\* score 0.85 + 0.15 * log10(2731571) / 7, which is below 1.
C17_TorontoScoresByFormula ==
    torontoAlone =>
        /\ Len(response) = 1
        /\ response[1].name = TorontoDisplayName
        /\ response[1].score = 1000 * (100 - POPULATION_WEIGHT)
                                + (6436 \div 7) * POPULATION_WEIGHT
        /\ response[1].score < 100000

C17_Witness ==
    /\ torontoAlone
    /\ Len(response) = 1
    /\ response[1].source = "trie"
    /\ response[1].textScore = NAME_WEIGHT

\* C18: with coordinates alone, a place at the caller's coordinates scores 1.0
\* and comes before every place at a positive distance, each of which scores
\* below 1.0; no place farther than MAX_DISTANCE_KM is returned; a caller at
\* place 1 with the catalog [place 1, place 2 (7 km away), place 4 (1001 km
\* away)] gets [place 1, place 2].
C18_NearestFirst ==
    (branch = "locationOnly" /\ error = "none") =>
        /\ \A k \in 1..Len(response) :
              /\ kmFromCaller(response[k].city) = 0 => response[k].score = 100000
              /\ kmFromCaller(response[k].city) > 0 => response[k].score < 100000
              /\ kmFromCaller(response[k].city) <= MAX_DISTANCE_KM
        /\ \A i, j \in 1..Len(response) :
              (kmFromCaller(response[i].city) = 0 /\ kmFromCaller(response[j].city) > 0)
              => i < j
        /\ catalogIds = {1, 2, 4} =>
              [k \in 1..Len(response) |-> response[k].city] = <<1, 2>>

C18_Witness ==
    /\ branch = "locationOnly"
    /\ error = "none"
    /\ cities = <<4, 2, 1>>
    /\ Len(response) = 2
    /\ response[1].city = 1 /\ response[1].score = 100000
    /\ response[2].city = 2 /\ response[2].score = 99300

\* the display name, case by case
displayName(id) ==
    LET c == City(id)
    IN CASE c.country = <<>> /\ c.timezone = <<>> -> c.name
         [] c.country # <<>> /\ c.timezone = <<>> -> c.name \o <<",", " ">> \o c.country
         [] c.country = <<>> /\ c.timezone # <<>> -> c.name \o <<",", " ">> \o c.timezone
         [] OTHER -> c.name \o <<",", " ">> \o c.country \o <<",", " ">> \o c.timezone

\* C19: the display name of every suggestion is the place's primary name, then
\* ", " and the country when there is one, then ", " and the timezone when
\* there is one, whichever of the place's names matched the query.
C19_DisplayName ==
    /\ \A k \in 1..Len(response) : response[k].name = displayName(response[k].city)
    /\ \A k \in 1..Len(suggestions) :
          suggestions[k].name = displayName(suggestions[k].city)

C19_Witness ==
    /\ \E k \in 1..Len(response) :
          /\ response[k].source = "trie"
          /\ response[k].textScore = ALT_NAME_WEIGHT
          /\ City(response[k].city).country = <<>>
          /\ response[k].name = <<"B", "a", ",", " ", "T">>
    /\ \E k \in 1..Len(response) :
          /\ City(response[k].city).timezone = <<>>
          /\ response[k].name = <<"A", "b", ",", " ", "C", "A">>
    /\ \E k \in 1..Len(response) : response[k].name = <<"b">>

\* the insertions the index build makes, in order: for each place of the
\* catalog its name, its ASCII name, then each of its alternate names
insertionsOf(id) ==
    LET c == City(id)
        alts == IF c.altName # <<>> THEN split(c.altName) ELSE <<>>
    IN <<[word |-> toLowerCase(c.name), city |-> id, weight |-> NAME_WEIGHT]>>
       \o (IF c.ascii # <<>>
           THEN <<[word |-> toLowerCase(c.ascii), city |-> id, weight |-> ASCII_WEIGHT]>>
           ELSE <<>>)
       \o [k \in 1..Len(alts) |->
              [word |-> toLowerCase(trim(alts[k])), city |-> id,
               weight |-> ALT_NAME_WEIGHT]]

RECURSIVE insertionsUpTo(_)
insertionsUpTo(n) ==
    IF n = 0 THEN <<>> ELSE insertionsUpTo(n - 1) \o insertionsOf(cities[n])

insertions == insertionsUpTo(Len(cities))

lastInsertionAt(log, word) ==
    LET k == CHOOSE i \in 1..Len(log) :
                 /\ log[i].word = word
                 /\ \A j \in (i + 1)..Len(log) : log[j].word # word
    IN [city |-> log[k].city, weight |-> log[k].weight]

\* C20: a trie node holds one (place, weight) pair: after the build, the node
\* at which insertions ended holds the data of the last of them, search
\* reports for that node that pair (first, the node being where the traversal
\* starts), and the whole index holds one pair per such node.
C20_LaterInsertionWins ==
    (phase = "ready" /\ branch = "idle") =>
        LET log == insertions
        IN /\ \A i \in 1..Len(log) :
                 LET word == log[i].word
                     last == lastInsertionAt(log, word)
                 IN /\ word \in DOMAIN root
                    /\ root[word].isEndOfWord
                    /\ [city |-> root[word].city, weight |-> root[word].weight] = last
                    /\ Head(search(root, word)) = last
           /\ Len(search(root, <<>>)) = Cardinality({log[i].word : i \in 1..Len(log)})

C20_Witness ==
    /\ phase = "ready"
    /\ branch = "idle"
    /\ cities = <<2, 1>>
    /\ root[<<"a", "b">>].city = 1
    /\ root[<<"a", "b">>].weight = ASCII_WEIGHT
    /\ search(root, <<"A", "b">>)
          = <<[city |-> 1, weight |-> ASCII_WEIGHT], [city |-> 2, weight |-> ALT_NAME_WEIGHT]>>

\* C21: whatever places have been inserted, the root node of the prefix index
\* is not terminal and has no place attached.
C21_RootNotTerminal ==
    /\ ~root[<<>>].isEndOfWord
    /\ root[<<>>].city = Null

\* C22: after the build, a string of the fuzzy matcher under which several
\* places were added (by spellings with the same lower-cased form) is resolved
\* by findMatches to the place added last.
C22_LatestPlaceWins ==
    (phase = "ready" /\ branch = "idle") =>
        LET log == insertions
        IN \A k \in 1..Len(fuzzySet) :
              LET found == findMatches(fuzzySet, cityMap, fuzzySet[k].norm)
              IN /\ found # <<>>
                 /\ Head(found).similarity = 1000
                 /\ Head(found).city = lastInsertionAt(log, fuzzySet[k].norm).city

\* the index built from the catalog c and from nothing else
freshIndexOf(c) ==
    LET f == addAll([set |-> <<>>, map |-> <<>>], c, 1)
    IN [root |-> insertAll(EmptyTrie, c, 1), fuzzySet |-> f.set, cityMap |-> f.map]

liveIndex == [root |-> root, fuzzySet |-> fuzzySet, cityMap |-> cityMap]

\* C23: the index a lookup can see is at every moment the index of one catalog
\* (the old one or the new one, never a mixture of their entries), and when a
\* second initialization completes the index is exactly that of the catalog
\* then held.
C23_ReloadSwapsIndex ==
    /\ [](\E c \in InterleavedCatalogs \cup {<<>>} : liveIndex = freshIndexOf(c))
    /\ [][(phase = "reinitializing" /\ phase' = "ready")
            => (liveIndex' = freshIndexOf(cities'))]_vars

oneCoordinateOnly == (request.latitude = Undefined) # (request.longitude = Undefined)

\* C24: a request with only one of latitude and longitude is handled as one
\* without coordinates: with a query it takes the query-only branch and every
\* candidate is scored with the population score at POPULATION_WEIGHT; without
\* a query the answer is the empty list; no error is raised and no candidate
\* comes from the nearby search.
C24_OneCoordinateIsNone ==
    (branch # "idle" /\ oneCoordinateOnly) =>
        /\ error = "none"
        /\ branch = (IF queryPresent THEN "queryOnly" ELSE "none")
        /\ ~queryPresent => (response = <<>> /\ consulted = {})
        /\ \A k \in 1..Len(suggestions) :
              /\ suggestions[k].source # "nearby"
              /\ suggestions[k].score =
                    (IF populationOf(suggestions[k].city) = NaN THEN NaN
                     ELSE suggestions[k].textScore * (100 - POPULATION_WEIGHT)
                          + populationOf(suggestions[k].city) * POPULATION_WEIGHT)

C24_Witness ==
    /\ branch = "queryOnly"
    /\ request.latitude # Undefined
    /\ request.longitude = Undefined
    /\ phase = "ready"
    /\ \E k \in 1..Len(response) :
          /\ kmFromCaller(response[k].city) > 0
          /\ response[k].score = 1000 * (100 - POPULATION_WEIGHT)
                                 + 333 * POPULATION_WEIGHT

pairsOf(list) == {list[k] : k \in 1..Len(list)}

\* C25: inserting a place that has been inserted before leaves search(p), as a
\* set of (place, weight) pairs, unchanged for every prefix p.
C25_InsertIdempotent ==
    (phase = "ready" /\ branch = "idle") =>
        \A id \in catalogIds : \A p \in Prefixes :
            pairsOf(search(insert(root, id), p)) = pairsOf(search(root, p))

\* the weight of the last field of a place written under the word
lastFieldWeight(id, word) == lastInsertionAt(insertionsOf(id), word).weight

\* C26: once a place has been inserted, each of its names is found with the
\* weight of the last of its fields written under that name (fields are
\* written primary, ASCII, alternates): a primary name that is also the ASCII
\* name or an alternate name is found with 0.9 or 0.7, not with 1.0.
C26_LastFieldWeightWins ==
    (phase = "ready" /\ branch = "idle") =>
        \A id \in CityIds :
            LET t == insert(root, id)
                fields == insertionsOf(id)
                primary == toLowerCase(City(id).name)
            IN /\ \A i \in 1..Len(fields) :
                     /\ Head(search(t, fields[i].word)).city = id
                     /\ Head(search(t, fields[i].word)).weight
                            = lastFieldWeight(id, fields[i].word)
               /\ (\E i \in 2..Len(fields) : fields[i].word = primary)
                  => Head(search(t, primary)).weight \in {ASCII_WEIGHT, ALT_NAME_WEIGHT}

C26_Witness ==
    /\ phase = "ready"
    /\ branch = "idle"
    /\ cities = <<1, 4>>
    /\ Head(search(root, <<"A", "b">>)) = [city |-> 1, weight |-> ASCII_WEIGHT]
    /\ Head(search(root, <<"b">>)) = [city |-> 4, weight |-> ALT_NAME_WEIGHT]

\* the places search, or else findMatches, yields for the query of the call
candidatesOf(query) ==
    LET trieMatches == search(root, query)
        fuzzyMatches == findMatches(fuzzySet, cityMap, query)
    IN IF Len(trieMatches) > 0
       THEN [k \in 1..Len(trieMatches) |->
                [city |-> trieMatches[k].city, textScore |-> trieMatches[k].weight]]
       ELSE [k \in 1..Len(fuzzyMatches) |->
                [city |-> fuzzyMatches[k].city,
                 textScore |-> fuzzyMatches[k].similarity]]

\* C27: with a query and coordinates, no candidate is dropped for its
\* distance: every prefix hit (or, without prefix hits, every fuzzy match) is
\* a candidate, one farther than MAX_DISTANCE_KM from the caller scores
\* textScore * (1 - PROXIMITY_WEIGHT), and the result is the candidates sorted
\* and cut at MAX_SUGGESTIONS, so below the cap every candidate is returned.
C27_FarCandidatesKept ==
    (branch = "queryWithLocation" /\ error = "none") =>
        LET candidates == candidatesOf(request.q[1])
        IN /\ Len(suggestions) = Len(candidates)
           /\ \A k \in 1..Len(candidates) :
                 /\ suggestions[k].city = candidates[k].city
                 /\ suggestions[k].textScore = candidates[k].textScore
           /\ \A k \in 1..Len(suggestions) :
                 kmFromCaller(suggestions[k].city) > MAX_DISTANCE_KM
                 => suggestions[k].score
                        = suggestions[k].textScore * (100 - PROXIMITY_WEIGHT)
           /\ response = slice(sortDescending(suggestions), MAX_SUGGESTIONS)
           /\ Len(suggestions) <= MAX_SUGGESTIONS
              => \A k \in 1..Len(suggestions) :
                    \E j \in 1..Len(response) : response[j] = suggestions[k]

C27_Witness ==
    /\ branch = "queryWithLocation"
    /\ error = "none"
    /\ request.q = Some(<<"b">>)
    /\ \E k \in 1..Len(response) :
          /\ response[k].city = 4
          /\ kmFromCaller(4) = 1001
          /\ response[k].source = "trie"
          /\ response[k].score = ALT_NAME_WEIGHT * (100 - PROXIMITY_WEIGHT)
====
